---------------------------- MODULE Spec2Model ----------------------------
(***************************************************************************)
(* Model of the placer probability tools:                                  *)
(*   src/blend_wuhan_weights.py           rasterize_hotspots,              *)
(*                                        blend_probabilities, main         *)
(*   src/build_p_terrain_masked_from_dem.py  run_wbt, apply_mask, main      *)
(*                                                                         *)
(* NUMBERS.  A raster cell or parameter is a record [k, m]:                *)
(*   "nan"   not-a-number                                                  *)
(*   "inf"   +infinity (m = 1) or -infinity (m = -1)                       *)
(*   "huge"  a finite float64 whose magnitude exceeds the float32 range,   *)
(*           such as -1.7976931348623157e308 (m is its sign)               *)
(*   "fix"   the real number m/1000                                        *)
(*   "lgt"   the probability 1/(1+exp(-m/1000)), strictly between 0 and 1, *)
(*           written by its log-odds in thousandths                        *)
(* Probabilities (base, masked and blended cells, eps) are "lgt" or lie    *)
(* outside (0,1); weights, strength, neutral, covariates and thresholds    *)
(* are "fix".  The model resolves one thousandth; roundings of the         *)
(* arithmetic below that are not represented.  What IS represented: NaN    *)
(* propagation, infinities, the narrowing to float32 (overflow to inf,     *)
(* rounding to exactly 1.0 or 0.0) and float64 absorption in 1+exp(-s).    *)
(***************************************************************************)
EXTENDS Integers, Sequences, FiniteSets, TLC

-----------------------------------------------------------------------------
(* Bounds of the model *)

\* largest raster width and height
MaxDim == 3
\* largest tile edge (block size of the base raster, window of apply_mask)
MaxTile == 2

-----------------------------------------------------------------------------
(* Floating-point values *)

NaN == [k |-> "nan", m |-> 0]
Inf(s) == [k |-> "inf", m |-> s]
Huge(s) == [k |-> "huge", m |-> s]
Fix(n) == [k |-> "fix", m |-> n]
Lgt(n) == [k |-> "lgt", m |-> n]

Zero == Fix(0)
One == Fix(1000)

\* position of a non-NaN value on the real line: <<tier, offset within tier>>
Tier(v) ==
    CASE v.k = "inf" -> IF v.m < 0 THEN 0 ELSE 6
      [] v.k = "huge" -> IF v.m < 0 THEN 1 ELSE 5
      [] v.k = "fix" -> IF v.m <= 0 THEN 2 ELSE IF v.m >= 1000 THEN 4 ELSE 3
      [] v.k = "lgt" -> 3
      [] OTHER -> 7

Ofs(v) == IF v.k \in {"fix", "lgt"} THEN v.m ELSE 0

IsNaN(v) == v.k = "nan"

\* IEEE comparisons: every comparison with NaN is false
FLt(a, b) ==
    /\ ~IsNaN(a)
    /\ ~IsNaN(b)
    /\ \/ Tier(a) < Tier(b)
       \/ Tier(a) = Tier(b) /\ Ofs(a) < Ofs(b)

FEq(a, b) == ~IsNaN(a) /\ ~IsNaN(b) /\ Tier(a) = Tier(b) /\ Ofs(a) = Ofs(b)

FLe(a, b) == FLt(a, b) \/ FEq(a, b)

FGt(a, b) == FLt(b, a)

\* np.isfinite
IsFinite(v) == v.k \in {"fix", "lgt", "huge"}

\* np.maximum / np.minimum propagate NaN
Maximum(a, b) == IF IsNaN(a) \/ IsNaN(b) THEN NaN ELSE IF FLt(a, b) THEN b ELSE a

Minimum(a, b) == IF IsNaN(a) \/ IsNaN(b) THEN NaN ELSE IF FLt(b, a) THEN b ELSE a

\* np.clip(x, lo, hi) = minimum(maximum(x, lo), hi)
Clip(v, lo, hi) == Minimum(Maximum(v, lo), hi)

\* a - b, a * b, a + b on "fix" operands; NaN and infinities propagate
FSub(a, b) ==
    IF IsNaN(a) \/ IsNaN(b) THEN NaN
    ELSE IF a.k = "fix" /\ b.k = "fix" THEN Fix(a.m - b.m)
    ELSE IF a.k = "inf" /\ b.k = "inf" /\ a.m = b.m THEN NaN
    ELSE IF a.k = "inf" THEN a
    ELSE IF b.k = "inf" THEN Inf(0 - b.m)
    ELSE NaN

FMul(a, b) ==
    IF IsNaN(a) \/ IsNaN(b) THEN NaN
    ELSE IF a.k = "fix" /\ b.k = "fix" THEN Fix((a.m * b.m) \div 1000)
    ELSE IF (a.k = "fix" /\ a.m = 0) \/ (b.k = "fix" /\ b.m = 0) THEN NaN
    ELSE IF (a.m < 0) = (b.m < 0) THEN Inf(1) ELSE Inf(-1)

FAdd(a, b) ==
    IF IsNaN(a) \/ IsNaN(b) THEN NaN
    ELSE IF a.k = "fix" /\ b.k = "fix" THEN Fix(a.m + b.m)
    ELSE IF a.k = "inf" /\ b.k = "inf" /\ a.m # b.m THEN NaN
    ELSE IF a.k = "inf" THEN a
    ELSE IF b.k = "inf" THEN b
    ELSE NaN

\* 1 - eps: the complement of a probability negates its log-odds
OneMinus(v) ==
    CASE v.k = "lgt" -> Lgt(0 - v.m)
      [] v.k = "fix" -> Fix(1000 - v.m)
      [] v.k = "inf" -> Inf(0 - v.m)
      [] v.k = "huge" -> Huge(0 - v.m)
      [] OTHER -> NaN

\* np.log(b / (1.0 - b)): the log-odds of a probability; at 0 the quotient is 0
\* and the log -inf, at 1 the quotient is inf; outside [0,1] and for infinite
\* or huge b the quotient is negative or NaN and the log is NaN
Logit(b) ==
    CASE b.k = "lgt" -> Fix(b.m)
      [] b.k = "fix" /\ b.m = 0 -> Inf(-1)
      [] b.k = "fix" /\ b.m = 1000 -> Inf(1)
      [] OTHER -> NaN

\* float64: 1.0 + exp(-s) = 1.0 once exp(-s) <= 2^-53, s >= 53 ln 2 = 36.7368
F64OneLogit == 36737
\* float64: exp(-s) overflows to inf once -s > ln(DBL_MAX) = 709.7827
F64ExpOverflow == 709783
\* float32: a probability rounds to 1.0 from 1 - 2^-25, log-odds ln(2^25 - 1) = 17.32868
F32OneLogit == 17329
\* float32: a probability rounds to 0.0 up to 2^-150, log-odds -150 ln 2 = -103.97208
F32ZeroLogit == -103973

\* 1.0 / (1.0 + np.exp(-shifted)) in float64
Expit(s) ==
    CASE s.k = "nan" -> NaN
      [] s.k = "inf" -> IF s.m > 0 THEN One ELSE Zero
      [] s.k = "fix" ->
            IF s.m >= F64OneLogit THEN One
            ELSE IF s.m <= 0 - F64ExpOverflow THEN Zero
            ELSE Lgt(s.m)
      [] OTHER -> NaN

\* .astype("float32"), and the cast numpy makes when a float64 is stored into
\* a float32 array
AsFloat32(v) ==
    CASE v.k = "huge" -> Inf(v.m)
      [] v.k = "lgt" ->
            IF v.m >= F32OneLogit THEN One
            ELSE IF v.m <= F32ZeroLogit THEN Zero
            ELSE v
      [] OTHER -> v

-----------------------------------------------------------------------------
(* State *)

VARIABLES
    scen,       \* "lib": blend_probabilities called on given rasters; "tools": the DEM-mask tool, then the hotspot blend tool
    pc,         \* position of the running program
    err,        \* the error raised: [kind, msg, tool, args]
    files,      \* DEM-mask tool: the files that exist (inputs and derived layers)
    invoked,    \* DEM-mask tool: the hydrology operations invoked so far, in order
    prob,       \* DEM-mask tool: probability raster to mask: [w, h, cells]
    cov,        \* DEM-mask tool: cells of the derived layers: [slope, hand, dist]
    window,     \* apply_mask's window
    masked,     \* file at apply_mask's out_path: [st, nodata, cells, writes]
    row_off,    \* row_off of the mask loop
    col_off,    \* col_off of the mask loop
    mtiles,     \* windows the mask loop has written, in order
    feats,      \* hotspot layer: the value_field of each feature, in layer order
    wnorm,      \* WNORM of each feature of the in-memory copy
    base,       \* base probability raster: [w, h, gt, nodata, bx, by, cells]
    wgt,        \* weight raster: [st, w, h, gt, cells]
    strength,   \* blend_probabilities' strength
    neutral,    \* neutral_value
    eps,        \* blend_probabilities' eps
    out,        \* file at blend_probabilities' out_path: [st, nodata, cells, writes]
    yoff,       \* y of the blend loop
    xoff,       \* x of the blend loop
    tiles       \* tiles the blend loop has written, in order

maskVars == <<files, invoked, prob, cov, window, masked, row_off, col_off, mtiles>>

hotVars == <<feats, wnorm>>

blendIn == <<base, wgt, strength, neutral, eps>>

blendSt == <<out, yoff, xoff, tiles>>

vars == <<scen, pc, err, maskVars, hotVars, blendIn, blendSt>>

NoErr == [kind |-> "", msg |-> "", tool |-> "", args |-> {}]

RuntimeError(msg) == [kind |-> "RuntimeError", msg |-> msg, tool |-> "", args |-> {}]

\* a cell of a created dataset that no write has reached
Unwritten == [k |-> "unwritten", m |-> 0]

\* row-major index of cell (cx, cy) in a raster of width w
Idx(cx, cy, w) == cy * w + cx + 1

\* the tile taken to the end of the row, the block size forgotten
Min_Remainder(a, b) == b

Min(a, b) == IF a < b THEN a ELSE b

\* the cells of the tile at (x, y) of size cols x rows
TileCells(x, y, cols, rows, w) ==
    {Idx(cx, cy, w) : cx \in x..(x + cols - 1), cy \in y..(y + rows - 1)}

\* a dataset just created with n cells
Created(n, nodata) ==
    [st |-> "new", nodata |-> nodata,
     cells |-> [i \in 1..n |-> Unwritten],
     writes |-> [i \in 1..n |-> 0]]

\* dataset f after a write of the array val (a function on the cells of a
\* window) at its offset
Written(f, val) ==
    [f EXCEPT !.cells = [i \in DOMAIN f.cells |->
                            IF i \in DOMAIN val THEN val[i] ELSE f.cells[i]],
              !.writes = [i \in DOMAIN f.writes |->
                            IF i \in DOMAIN val THEN f.writes[i] + 1 ELSE f.writes[i]]]

-----------------------------------------------------------------------------
(* Input values *)

\* a feature's value_field: a number, or None
Attr(v) == [null |-> FALSE, v |-> v]

Null == [null |-> TRUE, v |-> 0]

\* geotransform of the rasters
GT0 == <<0, 30, 0, 0, 0, -30>>

\* GT0 with coefficient c changed
GTOff(c) == [GT0 EXCEPT ![c] = GT0[c] + 1]

\* eps = 1e-6 (line 103; log-odds -13.8155) and a coarser 1e-3 (log-odds -6.9068)
EpsDefault == Lgt(-13816)

Epsilons == {EpsDefault, Lgt(-6907)}

Strengths == {Fix(-2000), Fix(0), Fix(2000)}

Neutrals == {Fix(250), Fix(500)}

\* nodata sentinels: 0.0, -9999, and the float64 lowest -1.7976931348623157e308
Nodatas == {Zero, Fix(-9999000), Huge(-1)}

\* values a base raster holds; the first is the raster's own sentinel
BasePal(nodata) ==
    <<nodata, NaN, Zero, Lgt(-20000), Lgt(-2000), Lgt(0), Lgt(3000), One>>

\* values a weight raster holds
WeightPal ==
    <<NaN, Fix(-1000), Zero, Fix(250), Fix(500), Fix(750), One, Fix(3000), Fix(4000)>>

\* values a probability raster holds: 0.5, 0.73, 0.0, NaN, +inf, a float64
\* above the float32 range, -inf
ProbPal == <<Lgt(0), Lgt(995), Zero, NaN, Inf(1), Huge(1), Inf(-1)>>

\* slope, HAND and distance of a cell: within all thresholds, on all
\* thresholds, one threshold exceeded, one value not finite
CovPal ==
    << [slope |-> Fix(5000), hand |-> Fix(5000), dist |-> Fix(50000)],
       [slope |-> Fix(10000), hand |-> Fix(15000), dist |-> Fix(300000)],
       [slope |-> Fix(12000), hand |-> Fix(5000), dist |-> Fix(50000)],
       [slope |-> Fix(5000), hand |-> Fix(15001), dist |-> Fix(50000)],
       [slope |-> Fix(5000), hand |-> Fix(5000), dist |-> Fix(301000)],
       [slope |-> NaN, hand |-> Fix(5000), dist |-> Fix(50000)],
       [slope |-> Fix(5000), hand |-> Inf(-1), dist |-> Fix(50000)],
       [slope |-> Fix(5000), hand |-> Fix(5000), dist |-> Inf(1)] >>

\* hotspot layers
FeatureSets ==
    { <<>>, <<Null>>, <<Attr(2)>>, <<Attr(2), Attr(5), Attr(8)>>,
      <<Attr(7), Attr(7), Attr(7)>>, <<Attr(8), Attr(2)>>, <<Attr(5), Attr(2), Attr(4)>>,
      <<Attr(2), Null>>, <<Null, Attr(5), Attr(2)>> }

\* element j (from 0, cyclically) of a palette
At(pal, j) == pal[(j % Len(pal)) + 1]

\* The rasters of a run hold consecutive value tuples of their palettes,
\* starting at offset o; the palette lengths are coprime, so over the offsets
\* every pair of values occurs at some cell.
Offsets(count, n) == {o \in 0..(count - 1) : o % n = 0}

BaseRaster(W, H, bx, by, nodata, o) ==
    [w |-> W, h |-> H, gt |-> GT0, nodata |-> nodata, bx |-> bx, by |-> by,
     cells |-> [i \in 1..(W * H) |-> At(BasePal(nodata), o + i - 1)]]

WeightRaster(W, H, gt, o) ==
    [st |-> "old", w |-> W, h |-> H, gt |-> gt,
     cells |-> [i \in 1..(W * H) |-> At(WeightPal, o + i - 1)]]

NoFile == [st |-> "absent", nodata |-> Zero, cells |-> <<>>, writes |-> <<>>]

OldFile == [st |-> "old", nodata |-> Zero, cells |-> <<>>, writes |-> <<>>]

NoRaster == [w |-> 0, h |-> 0, gt |-> GT0, nodata |-> Zero, bx |-> 1, by |-> 1, cells |-> <<>>]

-----------------------------------------------------------------------------
(* blend_probabilities, src/blend_wuhan_weights.py lines 97-156 *)

\* the mask taken from NaN cells instead of the sentinel
NodataMask_IsNaN(b, nodata) == IsNaN(b)

\* mask = base_arr == nodata
NodataMask(b, nodata) == FEq(b, nodata)

\* base_arr = np.clip(base_arr, eps, 1 - eps)
ClampBase(b, e) == Clip(b, e, OneMinus(e))

\* weight_arr >= 0 for weight_arr > 0
EffectiveWeight_KeepsZero(w, n) == IF FLe(Zero, w) THEN w ELSE n

\* weight_arr = np.where(weight_arr > 0, weight_arr, neutral_value)
EffectiveWeight(w, n) == IF FGt(w, Zero) THEN w ELSE n

\* the shift subtracted
Shifted_Reversed(logit, w, s, n) == FSub(logit, FMul(s, FSub(w, n)))

\* shifted = logit + strength * (weight_arr - neutral_value)
Shifted(logit, w, s, n) == FAdd(logit, FMul(s, FSub(w, n)))

\* blended = (1.0 / (1.0 + np.exp(-shifted))).astype("float32")
Blended(b, w, s, n, e) ==
    AsFloat32(Expit(Shifted(Logit(ClampBase(b, e)), EffectiveWeight(w, n), s, n)))

\* the value blended[mask] = nodata leaves in the float32 array
RestoreNodata(nodata) == AsFloat32(nodata)

\* one cell of lines 143-151
BlendCell(b, w, nodata, s, n, e) ==
    IF NodataMask(b, nodata) THEN RestoreNodata(nodata) ELSE Blended(b, w, s, n, e)

\* the height left out of the comparison
GridMismatch_WidthOnly(b, w) == b.w # w.w

\* lines 110-115: the grids of the two rasters differ
GridMismatch(b, w) == b.w # w.w \/ b.h # w.h

GeoTransformMismatch(b, w) == b.gt # w.gt

\* lines 107-115: open both rasters, compare the grids
BlendOpen ==
    /\ pc = "blend_open"
    /\ IF GridMismatch(base, wgt)
       THEN /\ err' = RuntimeError("Weight raster grid does not match base raster.")
            /\ pc' = "failed"
       ELSE IF GeoTransformMismatch(base, wgt)
       THEN /\ err' = RuntimeError("Weight raster geotransform does not match base raster.")
            /\ pc' = "failed"
       ELSE /\ err' = err
            /\ pc' = "blend_create"
    /\ UNCHANGED <<scen, maskVars, hotVars, blendIn, blendSt>>

\* lines 117-134: unlink an existing output, create the float32 output with
\* the base raster's nodata
BlendCreate ==
    /\ pc = "blend_create"
    /\ out' = Created(base.w * base.h, base.nodata)
    /\ yoff' = 0
    /\ xoff' = 0
    /\ pc' = IF base.h > 0 /\ base.w > 0 THEN "blend_tile" ELSE "blend_flush"
    /\ UNCHANGED <<scen, err, maskVars, hotVars, blendIn, tiles>>

\* lines 136-153: one pass of the inner loop body, then the loop headers
BlendTile ==
    /\ pc = "blend_tile"
    /\ LET rows == Min(base.by, base.h - yoff)
           cols == Min(base.bx, base.w - xoff)
           win == TileCells(xoff, yoff, cols, rows, base.w)
           blended == [i \in win |-> BlendCell(base.cells[i], wgt.cells[i], base.nodata,
                                               strength, neutral, eps)]
       IN /\ out' = Written(out, blended)
          /\ tiles' = Append(tiles, [x |-> xoff, y |-> yoff, cols |-> cols, rows |-> rows])
    /\ IF xoff + base.bx < base.w
       THEN /\ xoff' = xoff + base.bx
            /\ yoff' = yoff
            /\ pc' = pc
       ELSE /\ xoff' = 0
            /\ yoff' = yoff + base.by
            /\ pc' = IF yoff + base.by < base.h THEN "blend_tile" ELSE "blend_flush"
    /\ UNCHANGED <<scen, err, maskVars, hotVars, blendIn>>

\* lines 155-156: flush; the function returns (and main prints "Done.")
BlendFlush ==
    /\ pc = "blend_flush"
    /\ pc' = "done"
    /\ UNCHANGED <<scen, err, maskVars, hotVars, blendIn, blendSt>>

-----------------------------------------------------------------------------
(* DEM-mask tool, src/build_p_terrain_masked_from_dem.py *)

\* --slope-max, --hand-max, --dist-max defaults, lines 84-86
slope_max == Fix(10000)
hand_max == Fix(15000)
dist_max == Fix(300000)

\* distance to streams asked for before the streams are extracted
WbtSteps_Reordered ==
    << [tool |-> "fill_depressions", ins |-> {"dem"}, output |-> "filled"],
       [tool |-> "d8_pointer", ins |-> {"filled"}, output |-> "fdir"],
       [tool |-> "d8_flow_accumulation", ins |-> {"filled"}, output |-> "facc"],
       [tool |-> "euclidean_distance", ins |-> {"streams"}, output |-> "dist"],
       [tool |-> "extract_streams", ins |-> {"facc"}, output |-> "streams"],
       [tool |-> "elevation_above_stream", ins |-> {"filled", "streams"}, output |-> "hand"],
       [tool |-> "slope", ins |-> {"filled"}, output |-> "slope"] >>

\* lines 108-114: the operations in call order, with the files each reads
\* and the file it writes
WbtSteps ==
    << [tool |-> "fill_depressions", ins |-> {"dem"}, output |-> "filled"],
       [tool |-> "d8_pointer", ins |-> {"filled"}, output |-> "fdir"],
       [tool |-> "d8_flow_accumulation", ins |-> {"filled"}, output |-> "facc"],
       [tool |-> "extract_streams", ins |-> {"facc"}, output |-> "streams"],
       [tool |-> "euclidean_distance", ins |-> {"streams"}, output |-> "dist"],
       [tool |-> "elevation_above_stream", ins |-> {"filled", "streams"}, output |-> "hand"],
       [tool |-> "slope", ins |-> {"filled"}, output |-> "slope"] >>

\* lines 89-94: both inputs must exist
MaskMain ==
    /\ pc = "mask_main"
    /\ IF "dem" \notin files
       THEN /\ err' = [kind |-> "FileNotFoundError", msg |-> "DEM not found", tool |-> "", args |-> {}]
            /\ pc' = "failed"
       ELSE IF "prob" \notin files
       THEN /\ err' = [kind |-> "FileNotFoundError", msg |-> "Probability raster not found",
                       tool |-> "", args |-> {}]
            /\ pc' = "failed"
       ELSE /\ err' = err
            /\ pc' = "wbt"
    /\ UNCHANGED <<scen, maskVars, hotVars, blendIn, blendSt>>

\* run_wbt, lines 32-35, called from lines 108-114: the next operation runs to
\* its end and reports ok; not ok raises
RunWbt ==
    /\ pc = "wbt"
    /\ LET step == WbtSteps[Len(invoked) + 1]
       IN \E ok \in BOOLEAN :
             /\ invoked' = Append(invoked, [tool |-> step.tool, ok |-> ok,
                                            ready |-> step.ins \subseteq files])
             /\ IF ok
                THEN /\ files' = files \cup {step.output}
                     /\ err' = err
                     /\ pc' = IF Len(invoked) + 1 = Len(WbtSteps) THEN "mask_open" ELSE "wbt"
                ELSE /\ files' = files
                     /\ err' = [kind |-> "RuntimeError", msg |-> "WhiteboxTools failed with args",
                                tool |-> step.tool, args |-> step.ins \cup {step.output}]
                     /\ pc' = "failed"
    /\ UNCHANGED <<scen, prob, cov, window, masked, row_off, col_off, mtiles,
                   hotVars, blendIn, blendSt>>

\* the thresholds alone, np.isfinite left out
Admissible_Unchecked(p, slp, hd, dist) ==
    /\ FLe(slp, slope_max)
    /\ FLe(hd, hand_max)
    /\ FLe(dist, dist_max)

\* lines 63-67
Admissible(p, slp, hd, dist) ==
    /\ IsFinite(p)
    /\ IsFinite(slp) /\ FLe(slp, slope_max)
    /\ IsFinite(hd) /\ FLe(hd, hand_max)
    /\ IsFinite(dist) /\ FLe(dist, dist_max)

\* lines 69-70: out = zeros(float32); out[mask] = p[mask].astype("float32")
MaskCell(p, slp, hd, dist) ==
    IF Admissible(p, slp, hd, dist) THEN AsFloat32(p) ELSE Zero

\* lines 41-51: open the four rasters, create the float32 output with nodata 0.0
ApplyMaskOpen ==
    /\ pc = "mask_open"
    /\ masked' = Created(prob.w * prob.h, Zero)
    /\ row_off' = 0
    /\ col_off' = 0
    /\ pc' = IF prob.h > 0 /\ prob.w > 0 THEN "mask_tile" ELSE "mask_done"
    /\ UNCHANGED <<scen, err, files, invoked, prob, cov, window, mtiles,
                   hotVars, blendIn, blendSt>>

\* lines 52-71: one pass of the inner loop body, then the loop headers
ApplyMaskTile ==
    /\ pc = "mask_tile"
    /\ LET win_h == Min(window, prob.h - row_off)
           win_w == Min(window, prob.w - col_off)
           win == TileCells(col_off, row_off, win_w, win_h, prob.w)
           outv == [i \in win |-> MaskCell(prob.cells[i], cov.slope[i], cov.hand[i],
                                           cov.dist[i])]
       IN /\ masked' = Written(masked, outv)
          /\ mtiles' = Append(mtiles, [x |-> col_off, y |-> row_off,
                                       cols |-> win_w, rows |-> win_h])
    /\ IF col_off + window < prob.w
       THEN /\ col_off' = col_off + window
            /\ row_off' = row_off
            /\ pc' = pc
       ELSE /\ col_off' = 0
            /\ row_off' = row_off + window
            /\ pc' = IF row_off + window < prob.h THEN "mask_tile" ELSE "mask_done"
    /\ UNCHANGED <<scen, err, files, invoked, prob, cov, window, hotVars, blendIn, blendSt>>

-----------------------------------------------------------------------------
(* Hotspot blend tool, src/blend_wuhan_weights.py: main and rasterize_hotspots *)

\* tile edge of the GeoTIFF apply_mask writes (blockxsize = blockysize = 512,
\* line 48), in cells of the model
MaskBlock == 2

\* lines 50-54: the non-null values of the layer
Values(fs) == {fs[i].v : i \in {j \in 1..Len(fs) : ~fs[j].null}}

SetMin(S) == CHOOSE a \in S : \A b \in S : a <= b

SetMax(S) == CHOOSE a \in S : \A b \in S : a >= b

\* line 58
Span(vmin, vmax) == IF vmax # vmin THEN vmax - vmin ELSE 1

\* line 69: norm = (float(raw) - vmin) / span, in thousandths
Normalized(raw, vmin, span) == Fix(((raw - vmin) * 1000) \div span)

\* the features before the first whose value is None (all of them when none is)
BeforeNull(fs) ==
    LET nulls == {j \in 1..Len(fs) : fs[j].null}
    IN IF nulls = {} THEN Len(fs) ELSE SetMin(nulls) - 1

\* cells whose centre lies in the polygon of feature f, in a raster of n cells:
\* consecutive polygons overlap in one cell
Cover(f, n) == {c \in 1..n : c = f \/ c = f + 1}

\* gdal.RasterizeLayer burns the features in layer order over the fill value
Burned(c, n, norms, fill) ==
    LET over == {f \in 1..Len(norms) : c \in Cover(f, n)}
    IN IF over = {} THEN AsFloat32(fill) ELSE AsFloat32(norms[SetMax(over)])

\* main, lines 208-217: the tool is started with its default --base-raster,
\* the raster the DEM-mask tool wrote, on some hotspot layer
HotspotMain ==
    /\ pc = "mask_done"
    /\ feats' \in FeatureSets
    /\ strength' \in Strengths
    /\ neutral' \in Neutrals
    /\ eps' = EpsDefault
    /\ base' = [w |-> prob.w, h |-> prob.h, gt |-> GT0, nodata |-> masked.nodata,
                bx |-> MaskBlock, by |-> MaskBlock, cells |-> masked.cells]
    /\ pc' = "rasterize"
    /\ UNCHANGED <<scen, err, maskVars, wnorm, wgt, blendSt>>

\* rasterize_hotspots, lines 40-72: read the values, normalize every feature
\* of the in-memory copy
RasterizeNormalize ==
    /\ pc = "rasterize"
    /\ IF Len(feats) = 0
       THEN /\ err' = RuntimeError("Hotspots layer is empty.")
            /\ wnorm' = wnorm
            /\ pc' = "failed"
       ELSE IF Values(feats) = {}
       THEN /\ err' = RuntimeError("No values found in field.")
            /\ wnorm' = wnorm
            /\ pc' = "failed"
       ELSE LET vmin == SetMin(Values(feats))
                vmax == SetMax(Values(feats))
                span == Span(vmin, vmax)
                k == BeforeNull(feats)
            IN /\ wnorm' = [i \in 1..k |-> Normalized(feats[i].v, vmin, span)]
               /\ IF k < Len(feats)
                  THEN /\ err' = [kind |-> "TypeError", msg |-> "float() argument is None",
                                  tool |-> "", args |-> {}]
                       /\ pc' = "failed"
                  ELSE /\ err' = err
                       /\ pc' = "burn"
    /\ UNCHANGED <<scen, maskVars, feats, blendIn, blendSt>>

\* rasterize_hotspots, lines 74-94: unlink an existing output, create the
\* float32 raster on the template's grid, fill it, burn WNORM
RasterizeBurn ==
    /\ pc = "burn"
    /\ wgt' = [st |-> "new", w |-> base.w, h |-> base.h, gt |-> base.gt,
               cells |-> [c \in 1..(base.w * base.h) |->
                            Burned(c, base.w * base.h, wnorm, neutral)]]
    /\ pc' = "blend_open"
    /\ UNCHANGED <<scen, err, maskVars, hotVars, base, strength, neutral, eps, blendSt>>

-----------------------------------------------------------------------------
(* Initial states *)

\* a call of blend_probabilities on rasters of one grid
InitLibMatch ==
    \E W \in 1..MaxDim, H \in 1..MaxDim, bx \in 1..MaxTile, by \in 1..MaxTile :
      \E nd \in Nodatas, o \in Offsets(Len(BasePal(Zero)) * Len(WeightPal), W * H) :
        /\ base = BaseRaster(W, H, bx, by, nd, o)
        /\ wgt = WeightRaster(W, H, GT0, o)
        /\ strength \in Strengths
        /\ neutral \in Neutrals
        /\ eps \in Epsilons
        /\ out \in {NoFile, OldFile}

\* a call of blend_probabilities on rasters whose grids differ
InitLibMismatch ==
    \E W \in 1..MaxDim, H \in 1..MaxDim :
        /\ base = BaseRaster(W, H, 1, 1, Zero, 0)
        /\ \/ \E W2 \in (1..MaxDim) \ {W} : wgt = WeightRaster(W2, H, GT0, 0)
           \/ \E H2 \in (1..MaxDim) \ {H} : wgt = WeightRaster(W, H2, GT0, 0)
           \/ \E c \in 1..6 : wgt = WeightRaster(W, H, GTOff(c), 0)
           \/ \E c \in 1..6 : wgt = WeightRaster(W + 1, H, GTOff(c), 0)
        /\ strength = Fix(2000)
        /\ neutral = Fix(500)
        /\ eps = EpsDefault
        /\ out \in {NoFile, OldFile}

InitLib ==
    /\ scen = "lib"
    /\ pc = "blend_open"
    /\ files = {}
    /\ invoked = <<>>
    /\ prob = [w |-> 0, h |-> 0, cells |-> <<>>]
    /\ cov = [slope |-> <<>>, hand |-> <<>>, dist |-> <<>>]
    /\ window = 1
    /\ masked = NoFile
    /\ feats = <<>>
    /\ (InitLibMatch \/ InitLibMismatch)

\* a run of the DEM-mask tool on existing inputs
InitToolsRun ==
    \E W \in 1..MaxDim, H \in 1..MaxDim :
      \E o \in Offsets(Len(ProbPal) * Len(CovPal), W * H) :
        /\ files = {"dem", "prob"}
        /\ prob = [w |-> W, h |-> H, cells |-> [i \in 1..(W * H) |-> At(ProbPal, o + i - 1)]]
        /\ cov = [slope |-> [i \in 1..(W * H) |-> At(CovPal, o + i - 1).slope],
                  hand |-> [i \in 1..(W * H) |-> At(CovPal, o + i - 1).hand],
                  dist |-> [i \in 1..(W * H) |-> At(CovPal, o + i - 1).dist]]
        /\ window \in 1..MaxTile

\* a run of the DEM-mask tool with an input missing
InitToolsMissing ==
    /\ files \in {{"dem"}, {"prob"}, {}}
    /\ prob = [w |-> 1, h |-> 1, cells |-> <<Lgt(0)>>]
    /\ cov = [slope |-> <<Fix(5000)>>, hand |-> <<Fix(5000)>>, dist |-> <<Fix(50000)>>]
    /\ window = 1

InitTools ==
    /\ scen = "tools"
    /\ pc = "mask_main"
    /\ invoked = <<>>
    /\ masked = NoFile
    /\ feats = <<>>
    /\ base = NoRaster
    /\ wgt \in {[st |-> t, w |-> 0, h |-> 0, gt |-> GT0, cells |-> <<>>] : t \in {"absent", "old"}}
    /\ strength = Zero
    /\ neutral = Zero
    /\ eps = EpsDefault
    /\ out = NoFile
    /\ (InitToolsRun \/ InitToolsMissing)

Init ==
    /\ err = NoErr
    /\ row_off = 0
    /\ col_off = 0
    /\ mtiles = <<>>
    /\ wnorm = <<>>
    /\ yoff = 0
    /\ xoff = 0
    /\ tiles = <<>>
    /\ (InitLib \/ InitTools)

Next ==
    \/ MaskMain
    \/ RunWbt
    \/ ApplyMaskOpen
    \/ ApplyMaskTile
    \/ HotspotMain
    \/ RasterizeNormalize
    \/ RasterizeBurn
    \/ BlendOpen
    \/ BlendCreate
    \/ BlendTile
    \/ BlendFlush

Spec == Init /\ [][Next]_vars

-----------------------------------------------------------------------------
(* Properties *)

\* cells the blend loop has written
BlendWritten == {i \in DOMAIN out.cells : out.writes[i] > 0}

\* cells the mask loop has written
MaskWritten == {i \in DOMAIN masked.cells : masked.writes[i] > 0}

\* blend_probabilities has been called
BlendCalled ==
    scen = "lib" \/ pc \in {"blend_open", "blend_create", "blend_tile", "blend_flush", "done"}

\* C1: every written cell of the blended output whose base value equals the
\* base raster's nodata sentinel holds exactly that sentinel, whatever its
\* weight, the strength, the neutral value and eps.
C1_NodataPropagates ==
    \A i \in BlendWritten :
        FEq(base.cells[i], base.nodata) => out.cells[i] = base.nodata

\* C2: every written cell of the blended output whose base value is a number
\* other than the nodata sentinel is strictly greater than 0 and strictly
\* less than 1, for every weight.  (Base cells that are NaN, which come out
\* as NaN, are left aside: the statement fails on numbers already.)
C2_BlendedInOpenUnitInterval ==
    \A i \in BlendWritten :
        (~IsNaN(base.cells[i]) /\ ~FEq(base.cells[i], base.nodata))
            => (FGt(out.cells[i], Zero) /\ FLt(out.cells[i], One))

\* the cells C3 speaks of: strength > 0, the base a number other than nodata
C3_Applies(i) ==
    /\ FGt(strength, Zero)
    /\ ~IsNaN(base.cells[i])
    /\ ~FEq(base.cells[i], base.nodata)

C4_Admits(i) ==
    /\ \A v \in {prob.cells[i], cov.slope[i], cov.hand[i], cov.dist[i]} :
          v.k \notin {"nan", "inf"}
    /\ FLe(cov.slope[i], Fix(10000))
    /\ FLe(cov.hand[i], Fix(15000))
    /\ FLe(cov.dist[i], Fix(300000))

\* C4 as stated: every written cell of the masked output equals the
\* probability p of the same cell where p, slope, HAND and distance are finite
\* and within the maxima, and is exactly 0.0 in every other case.
C4_AdmissiblePassesUnchanged ==
    \A i \in MaskWritten :
        masked.cells[i] = IF C4_Admits(i) THEN prob.cells[i] ELSE Zero

\* C4 amended: every written cell of the masked output equals p narrowed to
\* float32 where the cell is admissible, and exactly 0.0 in every other case.
C4_AdmissiblePassesAsFloat32 ==
    \A i \in MaskWritten :
        masked.cells[i] = IF C4_Admits(i) THEN AsFloat32(prob.cells[i]) ELSE Zero

\* an admissible 0.73 is written as 0.73, and next to it a cell with slope 12
\* is written as 0.0
C4_Witness ==
    \E i \in MaskWritten, j \in MaskWritten :
        /\ C4_Admits(i)
        /\ prob.cells[i] = Lgt(995)
        /\ masked.cells[i] = Lgt(995)
        /\ cov.slope[j] = Fix(12000)
        /\ IsFinite(prob.cells[j])
        /\ masked.cells[j] = Zero

\* the cells of tile t in a raster of width W
C5_Cells(t, W) == {cy * W + cx + 1 : cx \in t.x..(t.x + t.cols - 1), cy \in t.y..(t.y + t.rows - 1)}

\* the tiles ts written to dataset f of a W x H grid: each inside the grid,
\* pairwise disjoint, in row-major order, each cell written once per tile
\* holding it; all cells written once the loop is complete
C5_Tiling(ts, W, H, f, complete) ==
    /\ \A k \in 1..Len(ts) :
          /\ ts[k].x >= 0 /\ ts[k].y >= 0 /\ ts[k].cols >= 1 /\ ts[k].rows >= 1
          /\ ts[k].x + ts[k].cols <= W
          /\ ts[k].y + ts[k].rows <= H
    /\ \A k \in 1..Len(ts), l \in 1..Len(ts) :
          k < l =>
            /\ C5_Cells(ts[k], W) \cap C5_Cells(ts[l], W) = {}
            /\ \/ ts[k].y < ts[l].y
               \/ ts[k].y = ts[l].y /\ ts[k].x < ts[l].x
    /\ \A c \in DOMAIN f.writes :
          /\ f.writes[c] = Cardinality({k \in 1..Len(ts) : c \in C5_Cells(ts[k], W)})
          /\ f.writes[c] <= 1
    /\ complete => (DOMAIN f.writes = 1..(W * H) /\ \A c \in 1..(W * H) : f.writes[c] = 1)

\* C5: in both loops the tiles visited are pairwise non-overlapping, lie
\* inside the grid and are visited in row-major order; when a loop has
\* completed they cover the grid and every output cell was written exactly
\* once.
C5_TilesPartitionGrid ==
    /\ C5_Tiling(tiles, base.w, base.h, out,
                 out.st = "new" /\ pc \in {"blend_flush", "done"})
    /\ C5_Tiling(mtiles, prob.w, prob.h, masked,
                 masked.st = "new" /\ pc # "mask_tile")

\* both loops completed on a 3 x 3 grid in four tiles each, the last column
\* and row of tiles being partial
C5_Witness ==
    /\ pc = "done"
    /\ scen = "tools"
    /\ Len(mtiles) = 4
    /\ Len(tiles) = 4
    /\ tiles[4] = [x |-> 2, y |-> 2, cols |-> 1, rows |-> 1]
    /\ mtiles[2] = [x |-> 2, y |-> 0, cols |-> 1, rows |-> 2]

\* the order C6 states
C6_Order ==
    << "fill_depressions", "d8_pointer", "d8_flow_accumulation", "extract_streams",
       "euclidean_distance", "elevation_above_stream", "slope" >>

C7_Mismatch ==
    \/ base.w # wgt.w
    \/ base.h # wgt.h
    \/ \E c \in 1..6 : base.gt[c] # wgt.gt[c]

C7_Errors ==
    { "Weight raster grid does not match base raster.",
      "Weight raster geotransform does not match base raster." }

\* C7: when the two rasters differ in width, height or a geotransform
\* coefficient, blend_probabilities fails with a grid-mismatch error and the
\* file at the output path is as it was: not deleted, not created, no tile
\* written; when the grids agree no grid-mismatch error is raised.
C7_MismatchFailsFirst ==
    BlendCalled =>
        /\ C7_Mismatch =>
              /\ pc \in {"blend_open", "failed"}
              /\ pc = "failed" => err.msg \in C7_Errors
              /\ out \in {NoFile, OldFile}
              /\ tiles = <<>>
        /\ ~C7_Mismatch => err.msg \notin C7_Errors

\* a geotransform coefficient differs on equal sizes: failed, the old output kept
C7_Witness ==
    /\ scen = "lib"
    /\ pc = "failed"
    /\ base.w = wgt.w
    /\ base.h = wgt.h
    /\ base.gt # wgt.gt
    /\ out = OldFile

\* C8: for a non-empty layer with at least one non-null value, normalization
\* completes and gives every feature a normalized value in [0,1].
C8_NormalizationCompletes ==
    (pc # "rasterize" /\ Len(feats) > 0 /\ Values(feats) # {}) =>
        /\ pc # "failed"
        /\ Len(wnorm) = Len(feats)
        /\ \A i \in 1..Len(wnorm) : FLe(Zero, wnorm[i]) /\ FLe(wnorm[i], One)

\* cells inside at least one polygon
C9_Covered == {c \in DOMAIN base.cells : \E f \in 1..Len(feats) : c = f \/ c = f + 1}

C10_ExcludedStaysZero ==
    scen = "tools" =>
        \A i \in BlendWritten : ~C4_Admits(i) => out.cells[i] = Zero

\* an excluded cell burned with the largest weight, blended with strength 2,
\* is 0.0
C10_Witness ==
    /\ scen = "tools"
    /\ strength = Fix(2000)
    /\ \E i \in BlendWritten :
          /\ ~C4_Admits(i)
          /\ IsFinite(prob.cells[i])
          /\ prob.cells[i] # Zero
          /\ wgt.cells[i] = One
          /\ out.cells[i] = Zero

=============================================================================
